---- MODULE Spec2Model ----
(***************************************************************************)
(* LoadSingleImage (cellprofiler/modules/loadsingleimage.py): the settings *)
(* record of the module, its revision upgrade chain (upgrade_settings) and *)
(* the file-entry list that prepare_settings / add_file maintain.          *)
(*                                                                         *)
(* A Python string is a sequence of tokens; a token is one of the          *)
(* characters the code inspects (".", "&", "|", "/") or an indivisible     *)
(* run of other characters, so s[0], s[1:], startswith, "+" and split are  *)
(* computed on the sequence.  An element of a settings list is Str(s) for  *)
(* a string or Tup(a, b) for the 2-tuple that Python 2's zip() produces.   *)
(***************************************************************************)
EXTENDS Integers, Sequences, FiniteSets, TLC

\* ---------------------------------------------------------------- bounds
MaxEntries == 2
MaxLegacyEntries == 4
MaxExtra == 2
MaxCalls == 2
MaxFiles == 3

\* ------------------------------------------------------- module constants
DIR_CUSTOM_FOLDER == <<"Custom folder">>
DIR_CUSTOM_WITH_METADATA == <<"Custom with metadata">>
S_FILE_SETTINGS_COUNT_V4 == 3
S_FILE_SETTINGS_COUNT_V5 == 5
CURRENT_REVISION == 5

\* constants imported from cellprofiler.settings / preferences / loadimages
DEFAULT_INPUT_FOLDER_NAME == <<"Default Input Folder">>
DEFAULT_OUTPUT_FOLDER_NAME == <<"Default Output Folder">>
ABSOLUTE_FOLDER_NAME == <<"Elsewhere...">>
DEFAULT_INPUT_SUBFOLDER_NAME == <<"Default Input Folder sub-folder">>
DEFAULT_OUTPUT_SUBFOLDER_NAME == <<"Default Output Folder sub-folder">>
URL_FOLDER_NAME == <<"URL">>
DO_NOT_USE == <<"Do not use">>
YES == <<"yes">>
NO == <<"no">>
IO_IMAGES == <<"Images">>
IO_OBJECTS == <<"Objects">>
DEFAULT_OBJECT_NAME == <<"Nuclei">>
DELIMITER == "|"

\* ------------------------------------------------- Python values and lists
Str(s) == [k |-> "str", v |-> s]
Tup(a, b) == [k |-> "tuple", v |-> <<a, b>>]
IsStr(x) == x.k = "str"

Min(a, b) == IF a < b THEN a ELSE b
Max(a, b) == IF a > b THEN a ELSE b

\* lst[i] with 0 <= i, and whether it raises IndexError
InRange(lst, i) == 0 <= i /\ i < Len(lst)
At(lst, i) == lst[i + 1]

\* lst[i:j] for 0 <= i, clipped as Python clips slices
Slice(lst, i, j) == SubSeq(lst, Min(i, Len(lst)) + 1, Min(j, Len(lst)))
\* lst[i:]
SliceFrom(lst, i) == Slice(lst, i, Len(lst))
\* lst[i::step]
RECURSIVE Stride(_, _, _)
Stride(lst, i, step) ==
    IF i >= Len(lst) THEN <<>> ELSE <<At(lst, i)>> \o Stride(lst, i + step, step)
\* del lst[i:j]
DelSlice(lst, i, j) == Slice(lst, 0, i) \o SliceFrom(lst, Max(i, j))
\* lst with lst[i] = x
SetAt(lst, i, x) == [lst EXCEPT ![i + 1] = x]
\* zip(xs, ys) of Python 2: a list of 2-tuples, as long as the shorter list
RECURSIVE Zip(_, _)
Zip(xs, ys) ==
    IF xs = <<>> \/ ys = <<>> THEN <<>>
    ELSE <<Tup(Head(xs), Head(ys))>> \o Zip(Tail(xs), Tail(ys))

\* s.startswith(prefix)
StartsWith(s, prefix) ==
    Len(s) >= Len(prefix) /\ SubSeq(s, 1, Len(prefix)) = prefix

\* ------------------------------------------- DirectoryPath wire encoding
\* position (1-based) of the first delimiter of s, 0 when there is none
RECURSIVE FindDelimiter(_, _)
FindDelimiter(s, i) ==
    IF i > Len(s) THEN 0
    ELSE IF s[i] = DELIMITER THEN i ELSE FindDelimiter(s, i + 1)

\* DirectoryPath.static_join_string(dir_choice, custom_path)
static_join_string(dir_choice, custom_path) ==
    dir_choice \o <<DELIMITER>> \o custom_path

\* whether DirectoryPath.split_string(s) can decode s
CanSplit(s) == FindDelimiter(s, 1) > 0
\* DirectoryPath.split_string(s) = (dir_choice, custom_path)
split_string(s) ==
    LET p == FindDelimiter(s, 1)
    IN  [dir_choice |-> SubSeq(s, 1, p - 1), custom_path |-> SubSeq(s, p + 1, Len(s))]

\* standardize_default_folder_names: deprecated spellings of a folder tag
standardize_default_folder_name(tag) ==
    IF tag \in {<<"Default Image Folder">>, <<"Default image", " folder">>,
                <<"Default image", " directory">>, <<"Default Input Directory">>}
    THEN DEFAULT_INPUT_FOLDER_NAME
    ELSE IF tag \in {<<"Default output folder">>, <<"Default Output Directory">>}
    THEN DEFAULT_OUTPUT_FOLDER_NAME
    ELSE tag

\* DirectoryPath.upgrade_setting(value)
upgrade_setting(value) ==
    LET d == split_string(value)
    IN  static_join_string(standardize_default_folder_name(d.dir_choice), d.custom_path)

\* ------------------------------------------------ results of a rewrite step
Ok(values) == [err |-> "none", val |-> values]
Raise(kind) == [err |-> kind, val |-> <<>>]

\* ------------------------------------------- upgrade_settings: the guards
\* if from_matlab and variable_revision_number == 4
GuardLegacy(revision, matlab) == matlab /\ revision = 4
\* if variable_revision_number == 1 and not from_matlab
GuardV1(revision, matlab) == revision = 1 /\ ~matlab
\* if variable_revision_number == 2 and (not from_matlab)
GuardV2(revision, matlab) == revision = 2 /\ ~matlab
\* if variable_revision_number == 3 and (not from_matlab)
GuardV3(revision, matlab) == revision = 3 /\ ~matlab
\* the last guard written as "revision 4 or later"
GuardV4_AtLeast(revision, matlab) == revision >= 4 /\ ~matlab
\* if variable_revision_number == 4 and (not from_matlab)
GuardV4(revision, matlab) == revision = 4 /\ ~matlab

\* ---------------------------------------- upgrade_settings: Matlab -> 1
\* for i in [8, 6, 4]
LegacyScanSlots == <<8, 6, 4>>

\* the "Do not use" loop over the slots still to visit
RECURSIVE RemoveDoNotUse(_, _)
RemoveDoNotUse(values, slots) ==
    IF slots = <<>> THEN Ok(values)
    ELSE LET i == Head(slots)
         IN  IF ~InRange(values, i + 1) THEN Raise("IndexError")
             ELSE IF At(values, i + 1) = Str(DO_NOT_USE)
                  THEN RemoveDoNotUse(DelSlice(values, i, i + 2), Tail(slots))
                  ELSE RemoveDoNotUse(values, Tail(slots))

\* the sentinels tested as a leading character instead of the whole field
LegacyDirChoice_Prefix(values) ==
    IF StartsWith(At(values, 1).v, <<".">>) THEN DEFAULT_INPUT_FOLDER_NAME
    ELSE IF StartsWith(At(values, 1).v, <<"&">>) THEN DEFAULT_OUTPUT_FOLDER_NAME
    ELSE DIR_CUSTOM_FOLDER

\* the directory choice written to slot 0 of a Matlab record
LegacyDirChoice(values) ==
    IF At(values, 1) = Str(<<".">>) THEN DEFAULT_INPUT_FOLDER_NAME
    ELSE IF At(values, 1) = Str(<<"&">>) THEN DEFAULT_OUTPUT_FOLDER_NAME
    ELSE DIR_CUSTOM_FOLDER

RuleLegacy(values) ==
    IF ~InRange(values, 1) THEN Raise("IndexError")
    ELSE RemoveDoNotUse(SetAt(values, 0, Str(LegacyDirChoice(values))), LegacyScanSlots)

\* -------------------------------------------- upgrade_settings: 1 -> 2
RuleV1(values) ==
    IF ~InRange(values, 1) THEN Raise("IndexError")
    ELSE LET tag == At(values, 0).v
             path == At(values, 1).v
             rest == SliceFrom(values, 2)
             Out(dir_choice, custom_directory) ==
                 Ok(<<Str(static_join_string(dir_choice, custom_directory))>> \o rest)
         IN  IF StartsWith(tag, <<"Default image">>)
             THEN Out(DEFAULT_INPUT_FOLDER_NAME, path)
             ELSE IF tag \in {DIR_CUSTOM_FOLDER, DIR_CUSTOM_WITH_METADATA}
             THEN IF path = <<>> THEN Raise("IndexError")
                  ELSE IF Head(path) = "." THEN Out(DEFAULT_INPUT_SUBFOLDER_NAME, path)
                  ELSE IF Head(path) = "&"
                       THEN Out(DEFAULT_OUTPUT_SUBFOLDER_NAME, <<".">> \o Tail(path))
                  ELSE Out(ABSOLUTE_FOLDER_NAME, path)
             ELSE Out(tag, path)

\* ------------------------- upgrade_settings: setting_values[SLOT_DIR] = ...
SLOT_DIR == 0

RuleSlotDir(values) ==
    IF ~InRange(values, SLOT_DIR) THEN Raise("IndexError")
    ELSE IF ~CanSplit(At(values, SLOT_DIR).v) THEN Raise("MalformedDescriptor")
    ELSE Ok(SetAt(values, SLOT_DIR, Str(upgrade_setting(At(values, SLOT_DIR).v))))

\* -------------------------------------------- upgrade_settings: 2 -> 3
\* [custom_dir + '/' + filename for filename in filenames]
PrefixFilenames(custom_dir, filenames) ==
    [i \in 1..Len(filenames) |-> Str(custom_dir \o <<"/">> \o filenames[i].v)]

RuleV2(values) ==
    LET d == split_string(At(values, 0).v)
    IN  IF d.dir_choice = URL_FOLDER_NAME
        THEN Ok(<<Str(static_join_string(d.dir_choice, <<>>))>>
                \o Zip(PrefixFilenames(d.custom_path, Stride(values, 1, 2)),
                       Stride(values, 2, 2)))
        ELSE Ok(values)

\* -------------------------------------------- upgrade_settings: 3 -> 4
\* the rescale field added once after the last entry instead of to each
AddRescale_Once(values, i) ==
    IF i >= Len(values) THEN <<>>
    ELSE SliceFrom(values, i) \o <<Str(YES)>>

RECURSIVE AddRescale(_, _)
AddRescale(values, i) ==
    IF i >= Len(values) THEN <<>>
    ELSE Slice(values, i, i + 2) \o <<Str(YES)>> \o AddRescale(values, i + 2)

RuleV3(values) == Ok(Slice(values, 0, 1) \o AddRescale(values, 1))

\* -------------------------------------------- upgrade_settings: 4 -> 5
\* the two new fields appended after the old ones instead of placed
RECURSIVE AddObjectChoice_Appended(_, _)
AddObjectChoice_Appended(values, i) ==
    IF i >= Len(values) THEN <<>>
    ELSE Slice(values, i, i + S_FILE_SETTINGS_COUNT_V4)
         \o <<Str(IO_IMAGES), Str(DEFAULT_OBJECT_NAME)>>
         \o AddObjectChoice_Appended(values, i + S_FILE_SETTINGS_COUNT_V4)

RECURSIVE AddObjectChoice(_, _)
AddObjectChoice(values, i) ==
    IF i >= Len(values) THEN <<>>
    ELSE <<At(values, i)>> \o <<Str(IO_IMAGES)>>
         \o Slice(values, i + 1, i + S_FILE_SETTINGS_COUNT_V4)
         \o <<Str(DEFAULT_OBJECT_NAME)>>
         \o AddObjectChoice(values, i + S_FILE_SETTINGS_COUNT_V4)

RuleV4(values) == Ok(Slice(values, 0, 1) \o AddObjectChoice(values, 1))

\* ------------------------------------------------------- file_settings
\* one SettingsGroup of file_settings as add_file builds it
NewGroup(can_remove) ==
    [can_remove |-> can_remove,
     file_name |-> <<"None">>,
     image_object_choice |-> IO_IMAGES,
     image_name |-> <<"OrigBlue">>,
     rescale |-> YES,
     object_name |-> DEFAULT_OBJECT_NAME]

\* a // b of Python 2 on integers, b > 0 (floor division)
FloorDiv(a, b) == a \div b

\* a Python index or slice bound, negative values counting from the end
SliceBound(lst, i) == IF i < 0 THEN Max(Len(lst) + i, 0) ELSE Min(i, Len(lst))

\* the count rounded up instead of down
EntryCount_RoundUp(values) ==
    FloorDiv(Len(values) - 1 + (S_FILE_SETTINGS_COUNT_V5 - 1), S_FILE_SETTINGS_COUNT_V5)

\* count = (len(setting_values)-1) / S_FILE_SETTINGS_COUNT_V5
EntryCount(values) == FloorDiv(Len(values) - 1, S_FILE_SETTINGS_COUNT_V5)

RECURSIVE AddFilesUpTo(_, _)
AddFilesUpTo(groups, count) ==
    IF Len(groups) < count
    THEN AddFilesUpTo(Append(groups, NewGroup(TRUE)), count)
    ELSE groups

\* file_settings after prepare_settings(values)
PreparedGroups(groups, values) ==
    AddFilesUpTo(SubSeq(groups, 1, SliceBound(groups, EntryCount(values))),
                 EntryCount(values))

\* the settings of one group in the order settings() appends them
SETTINGS_ORDER == <<"file_name", "image_object_choice", "image_name", "rescale", "object_name">>

\* self.directory, and the settings of group i (1-based) of file_settings in
\* the order settings() appends them, as references to the setting objects
DIRECTORY == [group |-> 0, name |-> "directory"]
GroupRefs(i) == [j \in 1..Len(SETTINGS_ORDER) |-> [group |-> i, name |-> SETTINGS_ORDER[j]]]

\* the values settings() returns for one group, in pipeline order
GroupSettings(g) == [i \in 1..Len(SETTINGS_ORDER) |-> Str(g[SETTINGS_ORDER[i]])]

\* ------------------------------------------------- records read from files
FILE_A == Str(<<"a.tif">>)
FILE_B == Str(<<"b.tif">>)
NAME_A == Str(<<"OrigBlue">>)
NAME_B == Str(<<"OrigGreen">>)

\* the file entries a record of each layout is built from
EntryPool(layout) ==
    CASE layout = "matlab" -> {<<FILE_A, NAME_A>>, <<FILE_B, Str(DO_NOT_USE)>>}
      [] layout = "v1" -> {<<FILE_A, NAME_A>>, <<FILE_B, NAME_B>>}
      [] layout = "v2" -> {<<FILE_A, NAME_A>>, <<FILE_B, NAME_B>>}
      [] layout = "v4" -> {<<FILE_A, NAME_A, Str(YES)>>, <<FILE_B, NAME_B, Str(NO)>>}
      [] layout = "v5" -> {<<FILE_A, Str(IO_IMAGES), NAME_A, Str(YES), Str(DEFAULT_OBJECT_NAME)>>,
                           <<FILE_B, Str(IO_OBJECTS), NAME_B, Str(NO), Str(<<"Cells">>)>>}

\* folder fields as the Matlab module and revision 1 stored them
CustomPaths == {<<>>, <<".">>, <<"&">>, <<".", "/", "sub">>, <<"&", "/", "sub">>, <<"/", "data">>}
V1Prefixes ==
    {<<Str(tag), Str(path)>> : tag \in {DIR_CUSTOM_FOLDER, DIR_CUSTOM_WITH_METADATA},
                                path \in CustomPaths}
    \cup {<<Str(<<"Default image", " folder">>), Str(<<".">>)>>,
          <<Str(DEFAULT_INPUT_FOLDER_NAME), Str(<<".">>)>>,
          <<Str(DEFAULT_OUTPUT_FOLDER_NAME), Str(<<"&">>)>>,
          <<Str(URL_FOLDER_NAME), Str(<<"http://host", "/", "plateA">>)>>}
\* the directory field from revision 2 on; the last one has no delimiter
V2Prefixes ==
    {<<Str(static_join_string(DEFAULT_INPUT_FOLDER_NAME, <<"None">>))>>,
     <<Str(static_join_string(<<"Default Image Folder">>, <<"None">>))>>,
     <<Str(static_join_string(ABSOLUTE_FOLDER_NAME, <<"/", "data">>))>>,
     <<Str(static_join_string(URL_FOLDER_NAME, <<"http://host", "/", "plateA">>))>>,
     <<Str(DEFAULT_INPUT_FOLDER_NAME)>>}

PrefixPool(layout) ==
    CASE layout = "matlab" -> {<<Str(<<>>), Str(path)>> : path \in CustomPaths}
      [] layout = "v1" -> V1Prefixes
      [] OTHER -> V2Prefixes

\* the layout a pipeline file of (revision, from_matlab) holds
LayoutOf(revision, matlab) ==
    IF matlab THEN "matlab"
    ELSE IF revision <= 1 THEN "v1"
    ELSE IF revision <= 3 THEN "v2"
    ELSE IF revision = 4 THEN "v4"
    ELSE "v5"

MaxEntriesOf(layout) == IF layout = "matlab" THEN MaxLegacyEntries ELSE MaxEntries

\* all tails of exactly n entries
RECURSIVE TailsOf(_, _)
TailsOf(pool, n) ==
    IF n = 0 THEN {<<>>}
    ELSE {e \o t : e \in pool, t \in TailsOf(pool, n - 1)}

\* k stray fields after the last entry (a damaged file)
Stray(k) == [i \in 1..k |-> Str(<<"x.tif">>)]

Records(revision, matlab) ==
    LET layout == LayoutOf(revision, matlab)
    IN  {p \o t \o Stray(k) :
            p \in PrefixPool(layout),
            t \in UNION {TailsOf(EntryPool(layout), n) : n \in 0..MaxEntriesOf(layout)},
            k \in 0..MaxExtra}

\* the (revision, from_matlab) pairs a pipeline file may declare
Revisions == 0..(CURRENT_REVISION + 1)
MatlabRevisions == {3, 4}

\* ------------------------------------------------------------------ state
VARIABLES
    pc,                        \* position in upgrade_settings, or idle / done / raised / loaded
    arg_values,                \* the caller's list object, as it is now
    arg_snapshot,              \* what the caller's list held when the call was made
    arg_revision,              \* variable_revision_number as passed
    arg_matlab,                \* from_matlab as passed
    setting_values,            \* the local name setting_values
    aliased,                   \* setting_values is still bound to the caller's list object
    variable_revision_number,  \* the local name
    from_matlab,               \* the local name
    applied,                   \* the rewrites this call has run, in order
    last_rule,                 \* the statement the last step executed
    before,                    \* setting_values before that statement
    error,                     \* the exception that ended the call
    calls,                     \* calls of upgrade_settings so far
    origin,                    \* the record, revision and flag the pipeline file held
    file_settings,             \* self.file_settings
    last_op,                   \* the last method that assigned file_settings
    files_before               \* file_settings before that method ran

vars == <<pc, arg_values, arg_snapshot, arg_revision, arg_matlab, setting_values, aliased,
          variable_revision_number, from_matlab, applied, last_rule, before, error, calls,
          origin, file_settings, last_op, files_before>>

fileVars == <<file_settings, last_op, files_before>>

callVars == <<arg_values, arg_snapshot, arg_revision, arg_matlab, setting_values, aliased,
              variable_revision_number, from_matlab, applied, last_rule, before, error, calls,
              origin>>

\* create_settings
Init ==
    /\ pc = "idle"
    /\ arg_values = <<>>
    /\ arg_snapshot = <<>>
    /\ arg_revision = 0
    /\ arg_matlab = FALSE
    /\ setting_values = <<>>
    /\ aliased = FALSE
    /\ variable_revision_number = 0
    /\ from_matlab = FALSE
    /\ applied = <<>>
    /\ last_rule = "none"
    /\ before = <<>>
    /\ error = "none"
    /\ calls = 0
    /\ origin = [values |-> <<>>, revision |-> 0, matlab |-> FALSE]
    /\ file_settings = <<NewGroup(FALSE)>>
    /\ last_op = "create_settings"
    /\ files_before = <<>>

\* entry of upgrade_settings(values, revision, module_name, matlab)
Enter(values, revision, matlab) ==
    /\ pc' = "if_matlab"
    /\ arg_values' = values
    /\ arg_snapshot' = values
    /\ arg_revision' = revision
    /\ arg_matlab' = matlab
    /\ setting_values' = values
    /\ aliased' = TRUE
    /\ variable_revision_number' = revision
    /\ from_matlab' = matlab
    /\ applied' = <<>>
    /\ last_rule' = "none"
    /\ before' = <<>>
    /\ error' = "none"
    /\ calls' = calls + 1
    /\ UNCHANGED fileVars

\* the pipeline reader calls upgrade_settings on a record of a file
Call ==
    /\ pc = "idle"
    /\ calls < MaxCalls
    /\ \E matlab \in BOOLEAN :
         \E revision \in (IF matlab THEN MatlabRevisions ELSE Revisions) :
           \E values \in Records(revision, matlab) :
             /\ Enter(values, revision, matlab)
             /\ origin' = [values |-> values, revision |-> revision, matlab |-> matlab]

\* upgrade_settings called again on what the last call returned
Reupgrade ==
    /\ pc = "done"
    /\ calls < MaxCalls
    /\ Enter(setting_values, variable_revision_number, from_matlab)
    /\ UNCHANGED origin

\* a block that rebinds setting_values to a new list, or raises
Rebind(rule, result, next_pc, revision) ==
    IF result.err # "none"
    THEN /\ pc' = "raised"
         /\ error' = result.err
         /\ UNCHANGED <<arg_values, arg_snapshot, arg_revision, arg_matlab, setting_values,
                        aliased, variable_revision_number, from_matlab, applied, last_rule,
                        before, calls, origin, fileVars>>
    ELSE /\ pc' = next_pc
         /\ setting_values' = result.val
         /\ aliased' = FALSE
         /\ variable_revision_number' = revision
         /\ from_matlab' = FALSE
         /\ applied' = Append(applied, rule)
         /\ last_rule' = rule
         /\ before' = setting_values
         /\ UNCHANGED <<arg_values, arg_snapshot, arg_revision, arg_matlab, error, calls,
                        origin, fileVars>>

\* lines 396-414
LegacyTo1 ==
    /\ pc = "if_matlab"
    /\ GuardLegacy(variable_revision_number, from_matlab)
    /\ Rebind("Legacy->1", RuleLegacy(setting_values), "if_v1", 1)

\* lines 418-437
V1To2 ==
    /\ pc = "if_v1"
    /\ GuardV1(variable_revision_number, from_matlab)
    /\ Rebind("1->2", RuleV1(setting_values), "slot_dir", 2)

\* lines 440-442: an assignment into the list setting_values is bound to
SlotDir ==
    /\ pc = "slot_dir"
    /\ LET result == RuleSlotDir(setting_values)
       IN  IF result.err # "none"
           THEN /\ pc' = "raised"
                /\ error' = result.err
                /\ UNCHANGED <<arg_values, setting_values, last_rule, before>>
           ELSE /\ pc' = "if_v2"
                /\ setting_values' = result.val
                /\ arg_values' = IF aliased THEN result.val ELSE arg_values
                /\ last_rule' = "slot_dir"
                /\ before' = setting_values
                /\ UNCHANGED error
    /\ UNCHANGED <<arg_snapshot, arg_revision, arg_matlab, aliased, variable_revision_number,
                   from_matlab, applied, calls, origin, fileVars>>

\* lines 445-454: only the URL branch rebinds setting_values
V2To3 ==
    /\ pc = "if_v2"
    /\ GuardV2(variable_revision_number, from_matlab)
    /\ LET result == RuleV2(setting_values)
       IN  /\ pc' = "if_v3"
           /\ setting_values' = result.val
           /\ aliased' = (aliased /\ split_string(At(setting_values, 0).v).dir_choice # URL_FOLDER_NAME)
           /\ variable_revision_number' = 3
           /\ applied' = Append(applied, "2->3")
           /\ last_rule' = "2->3"
           /\ before' = setting_values
    /\ UNCHANGED <<arg_values, arg_snapshot, arg_revision, arg_matlab, from_matlab, error,
                   calls, origin, fileVars>>

\* lines 456-462
V3To4 ==
    /\ pc = "if_v3"
    /\ GuardV3(variable_revision_number, from_matlab)
    /\ Rebind("3->4", RuleV3(setting_values), "if_v4", 4)

\* lines 464-473, then the return of line 475
V4To5 ==
    /\ pc = "if_v4"
    /\ GuardV4(variable_revision_number, from_matlab)
    /\ Rebind("4->5", RuleV4(setting_values), "done", 5)

\* whether the if statement at position p takes its block
Taken(p, revision, matlab) ==
    CASE p = "if_matlab" -> GuardLegacy(revision, matlab)
      [] p = "if_v1" -> GuardV1(revision, matlab)
      [] p = "if_v2" -> GuardV2(revision, matlab)
      [] p = "if_v3" -> GuardV3(revision, matlab)
      [] p = "if_v4" -> GuardV4(revision, matlab)

\* the statement after the if statement at position p
After(p) ==
    CASE p = "if_matlab" -> "if_v1"
      [] p = "if_v1" -> "slot_dir"
      [] p = "if_v2" -> "if_v3"
      [] p = "if_v3" -> "if_v4"
      [] p = "if_v4" -> "done"

\* an if statement whose condition is false
Skip ==
    /\ pc \in {"if_matlab", "if_v1", "if_v2", "if_v3", "if_v4"}
    /\ ~Taken(pc, variable_revision_number, from_matlab)
    /\ pc' = After(pc)
    /\ last_rule' = "none"
    /\ UNCHANGED <<arg_values, arg_snapshot, arg_revision, arg_matlab, setting_values, aliased,
                   variable_revision_number, from_matlab, applied, before, error, calls,
                   origin, fileVars>>

\* prepare_settings(setting_values) on the record upgrade_settings returned
PrepareSettings ==
    /\ pc \in {"done", "loaded"}
    /\ pc' = "loaded"
    /\ file_settings' = PreparedGroups(file_settings, setting_values)
    /\ last_op' = "prepare_settings"
    /\ files_before' = file_settings
    /\ UNCHANGED callVars

\* the "Add another image" button: add_file()
AddFile ==
    /\ pc \in {"idle", "loaded"}
    /\ Len(file_settings) < MaxFiles
    /\ file_settings' = Append(file_settings, NewGroup(TRUE))
    /\ last_op' = "add_file"
    /\ files_before' = file_settings
    /\ UNCHANGED <<pc, callVars>>

\* the "Remove this image" button of a group added with can_remove
RemoveFile ==
    /\ pc \in {"idle", "loaded"}
    /\ \E i \in 1..Len(file_settings) :
         /\ file_settings[i].can_remove
         /\ file_settings' = SubSeq(file_settings, 1, i - 1)
                             \o SubSeq(file_settings, i + 1, Len(file_settings))
    /\ last_op' = "remove"
    /\ files_before' = file_settings
    /\ UNCHANGED <<pc, callVars>>

\* settings(): self.directory, then the five settings of each group in order
Settings(groups) ==
    LET RECURSIVE Flat(_)
        Flat(i) ==
            IF i > Len(groups) THEN <<>>
            ELSE GroupRefs(i) \o Flat(i + 1)
    IN  <<DIRECTORY>> \o Flat(1)

Next ==
    \/ Call
    \/ Reupgrade
    \/ LegacyTo1
    \/ V1To2
    \/ SlotDir
    \/ V2To3
    \/ V3To4
    \/ V4To5
    \/ Skip
    \/ PrepareSettings
    \/ AddFile
    \/ RemoveFile

Spec == Init /\ [][Next]_vars

\* ------------------------------------------------------------- properties
\* the rewrites in their historical order
AllRules == <<"Legacy->1", "1->2", "2->3", "3->4", "4->5">>

\* the (revision, from_matlab) pairs that have a rewrite rule or are current
Supported(revision, matlab) ==
    IF matlab THEN revision = 4 ELSE revision \in 1..CURRENT_REVISION

\* the rewrites a call that starts at (revision, matlab) has to run
ExpectedChain(revision, matlab) ==
    IF matlab THEN AllRules ELSE SubSeq(AllRules, revision + 1, Len(AllRules))

IsPrefix(s, t) == Len(s) <= Len(t) /\ s = SubSeq(t, 1, Len(s))

AllStr(values) == \A i \in 1..Len(values) : IsStr(values[i])

\* fields per file entry, and fields before the first entry, of a layout
EntryWidth(revision, matlab) ==
    IF matlab \/ revision <= 3 THEN 2
    ELSE IF revision = 4 THEN S_FILE_SETTINGS_COUNT_V4
    ELSE S_FILE_SETTINGS_COUNT_V5
PrefixLen(revision, matlab) == IF matlab \/ revision <= 1 THEN 2 ELSE 1

\* the tail divides into whole entries
Aligned(values, revision, matlab) ==
    /\ Len(values) >= PrefixLen(revision, matlab)
    /\ (Len(values) - PrefixLen(revision, matlab)) % EntryWidth(revision, matlab) = 0

\* number of whole entries of an aligned record
EntriesIn(values, revision, matlab) ==
    (Len(values) - PrefixLen(revision, matlab)) \div EntryWidth(revision, matlab)

\* a record as a pipeline file of that revision holds it: string fields, whole
\* entries, a directory field that decodes, and the four image slots of the
\* Matlab module
Shaped(values, revision, matlab) ==
    /\ AllStr(values)
    /\ Aligned(values, revision, matlab)
    /\ (~matlab /\ revision >= 2) => CanSplit(values[1].v)
    /\ matlab => Len(values) >= 10

Returned == pc \in {"done", "loaded"}

\* C1 (as claimed): a call that starts at a supported pair with a record shaped
\* for it never raises, runs the rewrites of its chain in order, each once,
\* and returns revision 5 with from_matlab false.
C1_Original ==
    (calls > 0 /\ Supported(arg_revision, arg_matlab)
               /\ Shaped(arg_snapshot, arg_revision, arg_matlab))
    => /\ pc # "raised"
       /\ IsPrefix(applied, ExpectedChain(arg_revision, arg_matlab))
       /\ Returned => /\ applied = ExpectedChain(arg_revision, arg_matlab)
                      /\ variable_revision_number = CURRENT_REVISION
                      /\ ~from_matlab

\* C2 (as claimed): a call made with a pair that has no rewrite rule does not
\* return a record, a revision and a flag.
C2_Original == Returned => Supported(arg_revision, arg_matlab)

\* C3 (as claimed): no record whose tail is not a whole number of entries of
\* its revision gets through upgrade_settings and prepare_settings.
C3_Original ==
    (pc = "loaded" /\ ~origin.matlab /\ origin.revision \in 1..CURRENT_REVISION)
    => Aligned(origin.values, origin.revision, origin.matlab)

\* C4: upgrade_settings called on the (record, 5, false) that upgrade_settings
\* returned returns that record, 5 and false, and changes no field of it.
C4_Idempotent ==
    (calls >= 2 /\ arg_revision = CURRENT_REVISION /\ ~arg_matlab /\ pc \in {"done", "raised", "loaded"})
    => /\ pc # "raised"
       /\ setting_values = arg_snapshot
       /\ arg_values = arg_snapshot
       /\ variable_revision_number = CURRENT_REVISION
       /\ ~from_matlab

\* a second call has returned on the result of migrating a Matlab record
C4_Witness ==
    /\ pc = "done"
    /\ calls = 2
    /\ origin.matlab /\ origin.revision = 4
    /\ arg_revision = CURRENT_REVISION /\ ~arg_matlab
    /\ Len(arg_snapshot) > 1
    /\ setting_values = arg_snapshot

\* C5 (as claimed): when the call returns, the caller's list holds what it
\* held when the call was made.
C5_Original == Returned => arg_values = arg_snapshot

\* the (revision, from_matlab) pair a rewrite takes its record from
SourceRevision(rule) ==
    CASE rule = "Legacy->1" -> 4
      [] rule = "1->2" -> 1
      [] rule = "2->3" -> 2
      [] rule = "3->4" -> 3
      [] rule = "4->5" -> 4
SourceMatlab(rule) == rule = "Legacy->1"

\* the last step was a rewrite, and the record it was given had string fields
\* and whole entries of the rewrite's source layout
StepFromShaped ==
    /\ last_rule \in {AllRules[i] : i \in 1..Len(AllRules)}
    /\ AllStr(before)
    /\ Aligned(before, SourceRevision(last_rule), SourceMatlab(last_rule))

\* C6 (as claimed): after every rewrite step given such a record, the result is
\* a flat list of strings whose tail is a whole number of entries of the new
\* revision.
C6_Original ==
    StepFromShaped
    => /\ AllStr(setting_values)
       /\ Aligned(setting_values, variable_revision_number, FALSE)

\* field f (0-based) of entry j (1-based) of a record
EntryField(values, revision, matlab, j, f) ==
    At(values, PrefixLen(revision, matlab) + (j - 1) * EntryWidth(revision, matlab) + f)

\* C7 (as claimed): a non-legacy record of n whole entries at revision 1..4
\* comes back with 1 + 5n string fields, entry j carrying the image name of
\* the input's entry j.
C7_Original ==
    (Returned /\ ~arg_matlab /\ arg_revision \in 1..4
              /\ Shaped(arg_snapshot, arg_revision, arg_matlab))
    => LET n == EntriesIn(arg_snapshot, arg_revision, arg_matlab)
       IN  /\ Len(setting_values) = 1 + S_FILE_SETTINGS_COUNT_V5 * n
           /\ AllStr(setting_values)
           /\ \A j \in 1..n :
                EntryField(setting_values, CURRENT_REVISION, FALSE, j, 2)
                = EntryField(arg_snapshot, arg_revision, arg_matlab, j, 1)

\* the (file name, image name) pairs of a Matlab tail whose image name is not
\* the sentinel, in order
RECURSIVE UsedEntries(_)
UsedEntries(tail) ==
    IF Len(tail) < 2 THEN <<>>
    ELSE (IF tail[2] = Str(DO_NOT_USE) THEN <<>> ELSE SubSeq(tail, 1, 2))
         \o UsedEntries(SubSeq(tail, 3, Len(tail)))

\* C8 (as claimed): the Matlab rewrite keeps exactly the entries whose image
\* name is not "Do not use", in order, wherever they stand.
C8_Original ==
    (last_rule = "Legacy->1" /\ StepFromShaped)
    => SliceFrom(setting_values, 2) = UsedEntries(SliceFrom(before, 2))

\* [P + "/" + filename_1, image_name_1, ...] as a flat list of strings
RECURSIVE AbsorbedTail(_, _)
AbsorbedTail(custom_dir, tail) ==
    IF Len(tail) < 2 THEN <<>>
    ELSE <<Str(custom_dir \o <<"/">> \o tail[1].v), tail[2]>>
         \o AbsorbedTail(custom_dir, SubSeq(tail, 3, Len(tail)))

\* C9 (as claimed): 2->3 on a url record of n >= 1 entries gives the flat
\* record [encode(url, ""), P/filename_1, image_name_1, ...]; on any other tag
\* it changes no field.
C9_Original ==
    (last_rule = "2->3" /\ StepFromShaped /\ CanSplit(before[1].v))
    => LET d == split_string(before[1].v)
           tail == SliceFrom(before, 1)
       IN  IF d.dir_choice = URL_FOLDER_NAME
           THEN Len(tail) >= 2
                => setting_values = <<Str(static_join_string(URL_FOLDER_NAME, <<>>))>>
                                    \o AbsorbedTail(d.custom_path, tail)
           ELSE setting_values = before

\* the revision-5 fields of a revision-4 tail, written by setting name and
\* serialized in the order of settings()
RECURSIVE EntriesAsSettings(_)
EntriesAsSettings(tail) ==
    IF Len(tail) < 3 THEN <<>>
    ELSE GroupSettings([file_name |-> tail[1].v,
                        image_object_choice |-> <<"Images">>,
                        image_name |-> tail[2].v,
                        rescale |-> tail[3].v,
                        object_name |-> <<"Nuclei">>])
         \o EntriesAsSettings(SubSeq(tail, 4, Len(tail)))

\* C10: 4->5 maps every entry (filename, image_name, rescale) to (filename,
\* "Images", image_name, rescale, "Nuclei"), entries in order and the location
\* field unchanged, which is the field order of settings().
C10_FieldOrder ==
    (last_rule = "4->5" /\ StepFromShaped)
    => setting_values = <<before[1]>> \o EntriesAsSettings(SliceFrom(before, 1))

\* 4->5 has run on a revision-4 record of two different entries
C10_Witness ==
    /\ last_rule = "4->5"
    /\ StepFromShaped
    /\ arg_revision = 4 /\ ~arg_matlab
    /\ Len(before) = 1 + 2 * S_FILE_SETTINGS_COUNT_V4
    /\ before[2] # before[5]
    /\ Len(setting_values) = 1 + 2 * S_FILE_SETTINGS_COUNT_V5

\* C11: after Legacy->1 the leading field holds the default-input tag when the
\* record's second field is exactly ".", the default-output tag when it is
\* exactly "&" and the custom-folder tag for any other value, and the second
\* field is what it was.
C11_SentinelMapping ==
    (last_rule = "Legacy->1" /\ AllStr(before))
    => /\ setting_values[1] =
            (IF before[2].v = <<".">> THEN Str(<<"Default Input Folder">>)
             ELSE IF before[2].v = <<"&">> THEN Str(<<"Default Output Folder">>)
             ELSE Str(<<"Custom folder">>))
       /\ setting_values[2] = before[2]

\* Legacy->1 has run on a Matlab record whose second field only starts with a
\* sentinel
C11_Witness ==
    /\ last_rule = "Legacy->1"
    /\ pc = "if_v1"
    /\ before[2].v = <<"&", "/", "sub">>
    /\ setting_values[1].v = DIR_CUSTOM_FOLDER
    /\ setting_values[2] = before[2]

\* the compound field the 1->2 step is said to write for (tag, path)
CompoundField(tag, path) ==
    IF StartsWith(tag, <<"Default image">>)
    THEN <<"Default Input Folder", "|">> \o path
    ELSE IF tag = <<"Custom folder">> \/ tag = <<"Custom with metadata">>
    THEN IF StartsWith(path, <<".">>)
         THEN <<"Default Input Folder sub-folder", "|">> \o path
         ELSE IF StartsWith(path, <<"&">>)
         THEN <<"Default Output Folder sub-folder", "|", ".">> \o Tail(path)
         ELSE <<"Elsewhere...", "|">> \o path
    ELSE tag \o <<"|">> \o path

\* the 1->2 block has been entered with this record and has raised
V1Raised ==
    pc = "raised" /\ variable_revision_number = 1 /\ ~from_matlab

\* C12 (as claimed): the 1->2 step, on every record of string fields with its
\* two leading fields, completes, replaces (tag, path) by the one compound
\* field of the mapping and leaves every later field as it was.
C12_Original ==
    /\ (V1Raised /\ AllStr(setting_values) /\ Len(setting_values) >= 2) => FALSE
    /\ (last_rule = "1->2" /\ AllStr(before) /\ Len(before) >= 2)
       => setting_values = <<Str(CompoundField(before[1].v, before[2].v))>>
                           \o SubSeq(before, 3, Len(before))

\* C12, on the steps that complete: the mapping and the shrinking by one field
C12_OnCompletedSteps ==
    (last_rule = "1->2" /\ AllStr(before) /\ Len(before) >= 2)
    => /\ setting_values = <<Str(CompoundField(before[1].v, before[2].v))>>
                           \o SubSeq(before, 3, Len(before))
       /\ Len(setting_values) = Len(before) - 1

\* C13 (as claimed): no rewrite step raises on a record of string fields whose
\* tail is a whole number of entries of the step's source revision.
C13_Original ==
    (pc = "raised" /\ error = "IndexError")
    => ~(/\ AllStr(setting_values)
         /\ Aligned(setting_values, variable_revision_number, from_matlab))

\* the revision-4 fields of a revision-3 tail: each (filename, image_name)
\* followed by the rescale default
RECURSIVE EntriesWithRescale(_)
EntriesWithRescale(tail) ==
    IF Len(tail) < 2 THEN <<>>
    ELSE <<tail[1], tail[2], Str(<<"yes">>)>>
         \o EntriesWithRescale(SubSeq(tail, 3, Len(tail)))

\* C14: 3->4 maps every entry (filename, image_name) to (filename, image_name,
\* "yes"), entries in order and the location field unchanged, so a record of n
\* entries grows from 1 + 2n to 1 + 3n fields.
C14_RescaleAdded ==
    (last_rule = "3->4" /\ StepFromShaped)
    => /\ setting_values = <<before[1]>> \o EntriesWithRescale(SliceFrom(before, 1))
       /\ Len(setting_values) = 1 + 3 * EntriesIn(before, 3, FALSE)

\* 3->4 has run on a revision-3 record of two different entries
C14_Witness ==
    /\ last_rule = "3->4"
    /\ StepFromShaped
    /\ arg_revision = 3 /\ ~arg_matlab
    /\ Len(before) = 1 + 2 * 2
    /\ before[2] # before[4]
    /\ Len(setting_values) = 1 + 2 * S_FILE_SETTINGS_COUNT_V4
    /\ setting_values[4].v = YES /\ setting_values[7].v = YES

\* C15: after prepare_settings(setting_values), whatever add_file, removals
\* and earlier prepare_settings calls came before, file_settings holds exactly
\* floor((len(setting_values) - 1) / 5) groups (the leading groups it had are
\* kept, extras are dropped from the end, missing ones are appended by
\* add_file), and settings() returns 1 + 5 * that many settings: the directory,
\* then file_name, image_object_choice, image_name, rescale, object_name of
\* each group in order.
C15_PreparedSettings ==
    last_op = "prepare_settings"
    => LET n == (Len(setting_values) - 1) \div 5
           result == Settings(file_settings)
           names == <<"file_name", "image_object_choice", "image_name", "rescale",
                      "object_name">>
       IN  /\ Len(file_settings) = n
           /\ \A i \in 1..n :
                file_settings[i] = IF i <= Len(files_before) THEN files_before[i]
                                   ELSE NewGroup(TRUE)
           /\ Len(result) = 1 + 5 * n
           /\ result[1] = [group |-> 0, name |-> "directory"]
           /\ \A i \in 1..n : \A j \in 1..5 :
                result[1 + 5 * (i - 1) + j] = [group |-> i, name |-> names[j]]

\* prepare_settings has run on a record of two entries and two stray fields
\* while the module held three groups, the last one added by add_file
C15_Witness ==
    /\ last_op = "prepare_settings" /\ pc = "loaded"
    /\ Len(setting_values) = 1 + 2 * S_FILE_SETTINGS_COUNT_V5 + 2
    /\ Len(files_before) = 3 /\ files_before[3].can_remove
    /\ Len(file_settings) = 2
    /\ Len(Settings(file_settings)) = 11

====
